---- MODULE Spec2Model ----
(***************************************************************************)
(* Lock-free skip list (Fomitchev/Ruppert) as implemented in               *)
(* src/src/skip_list.cpp and src/src/skip_list.hpp.                        *)
(*                                                                         *)
(* Every atomic access to a node's successor word or backLink is one step  *)
(* of the calling thread; the code between two atomic accesses is local    *)
(* and runs without interruption.  Each thread carries an explicit call    *)
(* stack: the code is recursive (searchRight -> tryFlagNode -> searchRight,*)
(* helpFlagged -> tryMark -> helpFlagged).  Labels are named after the     *)
(* line of skip_list.cpp they stand for.                                   *)
(***************************************************************************)
EXTENDS Integers, Sequences, FiniteSets, TLC

(* ------------------------------ bounds -------------------------------- *)
\* number of levels a user tower may have (22 in skip_list.hpp, scaled down)
MAX_LEVEL == 2
\* user keys are 1..MaxKey
MaxKey == 3
\* operations the main thread performs in a single-threaded run
MaxOps == 3
\* spurious failures of compare_exchange_weak in one run
MaxSpurious == 1
\* worker threads of a concurrent run
NThreads == 2

(* ----------------------------- keys, nodes ---------------------------- *)
Null == 0
MAX_KEY == MaxKey + 1
MIN_KEY == (0 - MAX_KEY) - 1
Keys == 1 .. MaxKey

\* x10
markedBits == 2
\* x01
flaggedBits == 1
\* x11
comparisonMask == 3
\* struct alignas(8) Node
NodeAlign == 8

Address(n) == NodeAlign * n

\* a constructor that sets both bits when asked for a marked word
Successor_BothBits(r, m, f) ==
    Address(r) + (IF m THEN comparisonMask ELSE IF f THEN flaggedBits ELSE 0)

\* Successor::Successor(Node *right, bool marked, bool flagged)
Successor(r, m, f) ==
    Address(r) + (IF m THEN markedBits ELSE IF f THEN flaggedBits ELSE 0)

right(w) == (w - (w % (comparisonMask + 1))) \div NodeAlign

marked(w) == ((w \div markedBits) % 2) = 1

flagged(w) == ((w \div flaggedBits) % 2) = 1

\* std::atomic<Successor> successor of a node whose constructor does not set it
DefaultSuccessor == 0

\* Node(Key key, Element element)
RootNode(self, key, element) ==
    [key |-> key, element |-> element, successor |-> DefaultSuccessor,
     backLink |-> Null, down |-> Null, towerRoot |-> self, up |-> Null]

\* an upper node without its link to the node below
TowerNode_NoDown(key, down, towerRoot) ==
    [key |-> key, element |-> 0, successor |-> DefaultSuccessor,
     backLink |-> Null, down |-> Null, towerRoot |-> towerRoot, up |-> Null]

\* Node(Key key, Node *down, Node *towerRoot)
TowerNode(key, down, towerRoot) ==
    [key |-> key, element |-> 0, successor |-> DefaultSuccessor,
     backLink |-> Null, down |-> down, towerRoot |-> towerRoot, up |-> Null]

(* The constructor allocates head, tail and then MAX_LEVEL further pairs:  *)
(* the sentinels of level l are nodes l (head) and NumLevels + l (tail).   *)
NumLevels == MAX_LEVEL + 1
head == 1
tail == NumLevels + 1
HeadOf(l) == l
TailOf(l) == NumLevels + l
Sentinels == 1 .. (2 * NumLevels)

RECURSIVE ConstructorLoop(_, _, _, _)
ConstructorLoop(m, iteratorHead, iteratorTail, i) ==
    IF i >= MAX_LEVEL THEN m
    ELSE LET headNode == iteratorHead + 1
             tailNode == iteratorTail + 1
             m1 == [n \in (DOMAIN m) \cup {headNode, tailNode} |->
                      IF n = headNode
                        THEN [TowerNode(MIN_KEY, iteratorHead, head)
                                EXCEPT !.successor = Successor(tailNode, FALSE, FALSE)]
                      ELSE IF n = tailNode
                        THEN TowerNode(MAX_KEY, iteratorTail, tail)
                      ELSE IF n = iteratorHead THEN [m[n] EXCEPT !.up = headNode]
                      ELSE IF n = iteratorTail THEN [m[n] EXCEPT !.up = tailNode]
                      ELSE m[n]]
         IN ConstructorLoop(m1, headNode, tailNode, i + 1)

\* a constructor that ends with iteratorHead->up = iteratorHead (line 86)
Constructor_TopUpSelf ==
    LET m == ConstructorLoop(
                 [n \in {head, tail} |->
                     IF n = head
                       THEN [RootNode(head, MIN_KEY, 0)
                               EXCEPT !.successor = Successor(tail, FALSE, FALSE)]
                       ELSE RootNode(tail, MAX_KEY, 0)],
                 head, tail, 0)
    IN  [m EXCEPT ![HeadOf(NumLevels)].up = HeadOf(NumLevels)]

\* SkipList::SkipList()
Constructor ==
    ConstructorLoop(
        [n \in {head, tail} |->
            IF n = head
              THEN [RootNode(head, MIN_KEY, 0)
                      EXCEPT !.successor = Successor(tail, FALSE, FALSE)]
              ELSE RootNode(tail, MAX_KEY, 0)],
        head, tail, 0)

(* ------------------------------- state -------------------------------- *)
VARIABLES
    mem,      \* the heap: node -> its fields
    stack,    \* per thread: the call stack, innermost frame last
    ret,      \* per thread: the value the last returned call handed back
    ops,      \* per thread: the calls made so far, with their results
    phase,    \* "pre": main alone, "par": workers run, "post": workers joined
    crashed,  \* the process was aborted by undefined behaviour
    spur,     \* spurious compare_exchange_weak failures so far
    scen,     \* which family of runs this is
    everFlagged, \* history: the <<pred, victim>> with pred.successor once {victim,0,1}
    markedUnflagged  \* history: nodes marked before any predecessor was flagged toward them

vars == <<mem, stack, ret, ops, phase, crashed, spur, scen, everFlagged, markedUnflagged>>

Main == 0
Workers == 1 .. NThreads
Threads == {Main} \cup Workers

NoRet == [none |-> TRUE]

Top(t) == stack[t][Len(stack[t])]
Idle(t) == stack[t] = <<>>

\* replace the innermost frame
Jump(t, f) == [stack EXCEPT ![t][Len(stack[t])] = f]
\* leave continuation cont in the caller and enter callee
Push(t, cont, callee) ==
    [stack EXCEPT ![t] = Append(Append(SubSeq(@, 1, Len(@) - 1), cont), callee)]
\* leave the innermost frame
Pop(t) == [stack EXCEPT ![t] = SubSeq(@, 1, Len(@) - 1)]

\* labels at which the thread touches no shared word: they run at once
LocalPCs ==
    {"sr257", "tf303", "in321", "in355", "in356", "dn373", "dn375", "dn380",
     "hf409", "stl213", "stl214", "stl218", "stl223", "c476",
     "ins100", "ins123", "ins138", "ins153", "find169", "rem185", "rem191", "rem197"}

AtLocal(t) == (~Idle(t)) /\ Top(t).pc \in LocalPCs

\* thread t is scheduled: nothing aborted, no other thread inside local code
Runs(t, pcs) ==
    /\ ~crashed
    /\ ~Idle(t)
    /\ Top(t).pc \in pcs
    /\ \A u \in Threads \ {t} : ~AtLocal(u)

\* a step that writes no node
Step(t, stk, r) ==
    /\ stack' = stk
    /\ ret' = [ret EXCEPT ![t] = r]
    /\ UNCHANGED <<mem, ops, phase, crashed, spur, scen, everFlagged, markedUnflagged>>

\* a step that writes node n's successor word
StepSucc(t, stk, r, n, w, s) ==
    /\ stack' = stk
    /\ ret' = [ret EXCEPT ![t] = r]
    /\ mem' = [mem EXCEPT ![n].successor = w]
    /\ spur' = s
    /\ everFlagged' = IF flagged(w) THEN everFlagged \cup {<<n, right(w)>>}
                                   ELSE everFlagged
    /\ markedUnflagged' =
          IF /\ marked(w) /\ ~marked(mem[n].successor)
             /\ ~\E p \in DOMAIN mem : <<p, n>> \in everFlagged
            THEN markedUnflagged \cup {n}
            ELSE markedUnflagged
    /\ UNCHANGED <<ops, phase, crashed, scen>>

\* the step reads or writes through one of these pointers, and one is null
Faults(ptrs) == Null \in ptrs

\* dereferencing a null pointer aborts the process
NullDeref ==
    /\ crashed' = TRUE
    /\ UNCHANGED <<mem, stack, ret, ops, phase, spur, scen, everFlagged, markedUnflagged>>

\* compare_exchange_weak may fail although the word holds the expected value
SpuriousChoices(cur, old) ==
    IF cur = old /\ spur < MaxSpurious THEN {FALSE, TRUE} ELSE {FALSE}

\* an exchange that compares the pointers and ignores the mark and flag bits
CompareExchangeWeak_PointerOnly(cur, old, spurious) ==
    right(cur) = right(old) /\ ~spurious

\* an exchange that does not compare the mark bit
CompareExchangeWeak_IgnoreMark(cur, old, spurious) ==
    right(cur) = right(old) /\ flagged(cur) = flagged(old) /\ ~spurious

\* address.compare_exchange_weak(old, newValue)
CompareExchangeWeak(cur, old, spurious) == cur = old /\ ~spurious

(* ------------------------- frames of the calls ------------------------ *)
\* readFrom: the node whose successor word the current nextNode was loaded
\* from (Null while nextNode has not been loaded from the current currNode)
SRFrame(k, currNode) ==
    [pc |-> "sr248", k |-> k, curr |-> currNode, next |-> Null, readFrom |-> Null]
TFFrame(prevNode, targetNode) == [pc |-> "tf282", prev |-> prevNode, target |-> targetNode]
INFrame(newNode, prevNode, nextNode) ==
    [pc |-> "in321", new |-> newNode, prev |-> prevNode, next |-> nextNode, seen |-> 0]
DNFrame(prevNode, delNode) ==
    [pc |-> "dn373", prev |-> prevNode, del |-> delNode, status |-> FALSE,
     result |-> FALSE]
HFFrame(prevNode, delNode) == [pc |-> "hf403", prev |-> prevNode, del |-> delNode]
HMFrame(prevNode, delNode) ==
    [pc |-> "hm393", prev |-> prevNode, del |-> delNode, next |-> Null]
TMFrame(delNode) == [pc |-> "tm417", del |-> delNode, next |-> Null]
FSFrame(v) == [pc |-> "fs233", curr |-> head, currV |-> 1, v |-> v]
STLFrame(k, v) == [pc |-> "stl213", k |-> k, v |-> v, curr |-> Null, currV |-> 0]
EmptyCache == [i \in 0 .. MAX_LEVEL |-> <<Null, Null>>]
CacheFrame(k) ==
    [pc |-> "c465", k |-> k, curr |-> head, currV |-> 1, cache |-> EmptyCache]

Pair(a, b) == [first |-> a, second |-> b]
Flagging(prevNode, status, result) ==
    [first |-> prevNode, status |-> status, result |-> result]

(* --------------------------- searchRight ------------------------------ *)
\* the outer loop test of searchRight on a freshly loaded nextNode
\* a searchRight that does not look at the mark of the tower root
Superfluous_Never(rootSuccessor) == FALSE

\* a searchRight that takes every node for superfluous
Superfluous_Always(rootSuccessor) == TRUE

\* line 255: the tower of nextNode is being removed (its root is marked)
Superfluous(rootSuccessor) == marked(rootSuccessor)

SearchRightLoop(t, f) ==
    IF f.next = Null THEN NullDeref
    ELSE IF mem[f.next].key <= f.k
      THEN Step(t, Jump(t, [f EXCEPT !.pc = "sr255"]), NoRet)
      ELSE Step(t, Pop(t), Pair(f.curr, f.next))

SearchRight(t) ==
    /\ Runs(t, {"sr248", "sr255", "sr257", "sr263"})
    /\ LET f == Top(t) IN
       IF Faults(IF f.pc \in {"sr248", "sr263"} THEN {f.curr} ELSE {}) THEN NullDeref
       ELSE
       CASE f.pc = "sr248" ->
              \* nextNode = currNode->successor.load().right()   (lines 248, 268)
              SearchRightLoop(t, [f EXCEPT !.next = right(mem[f.curr].successor),
                                              !.readFrom = f.curr])
         [] f.pc = "sr255" ->
              \* while (nextNode->towerRoot->successor.load().marked())
              IF f.next = Null THEN NullDeref
              ELSE IF Superfluous(mem[mem[f.next].towerRoot].successor)
                THEN Step(t, Push(t, [f EXCEPT !.pc = "sr257"], TFFrame(f.curr, f.next)),
                          NoRet)
              ELSE IF mem[f.next].key <= f.k
                THEN Step(t, Jump(t, [f EXCEPT !.curr = f.next, !.readFrom = Null,
                                               !.pc = "sr248"]), NoRet)
              ELSE Step(t, Pop(t), Pair(f.curr, f.next))
         [] f.pc = "sr257" ->
              \* std::tie(currNode, status, _result) = tryFlagNode(currNode, nextNode)
              LET g == [f EXCEPT !.curr = ret[t].first, !.readFrom = Null,
                                    !.pc = "sr263"] IN
              IF ret[t].status
                THEN Step(t, Push(t, g, HFFrame(g.curr, g.next)), NoRet)
                ELSE Step(t, Jump(t, g), NoRet)
         [] f.pc = "sr263" ->
              \* nextNode = currNode->successor.load().right()   (line 263)
              Step(t, Jump(t, [f EXCEPT !.next = right(mem[f.curr].successor),
                                        !.readFrom = f.curr,
                                        !.pc = "sr255"]), NoRet)

(* --------------------------- tryFlagNode ------------------------------ *)
\* what CAS() hands back when compare_exchange_weak failed: a later load of
\* the word, compared with the value the caller tried to install
ReportsInstalled(reloaded, newValue) == reloaded = newValue

TryFlagNode(t) ==
    /\ Runs(t, {"tf282", "tf289", "tf290", "tf297", "tf298", "tf303"})
    /\ LET f == Top(t)
           flaggedPredecessor == Successor(f.target, FALSE, TRUE)
           oldSuccessor == Successor(f.target, FALSE, FALSE)
       IN
       IF Faults(IF f.pc = "tf303" THEN {} ELSE {f.prev}) THEN NullDeref
       ELSE
       CASE f.pc = "tf282" ->
              IF mem[f.prev].successor = flaggedPredecessor
                THEN Step(t, Pop(t), Flagging(f.prev, TRUE, FALSE))
                ELSE Step(t, Jump(t, [f EXCEPT !.pc = "tf289"]), NoRet)
         [] f.pc = "tf289" ->
              \E sp \in SpuriousChoices(mem[f.prev].successor, oldSuccessor) :
                IF CompareExchangeWeak(mem[f.prev].successor, oldSuccessor, sp)
                  THEN StepSucc(t, Pop(t), Flagging(f.prev, TRUE, TRUE),
                                f.prev, flaggedPredecessor, spur)
                  ELSE StepSucc(t, Jump(t, [f EXCEPT !.pc = "tf290"]), NoRet,
                                f.prev, mem[f.prev].successor,
                                IF sp THEN spur + 1 ELSE spur)
         [] f.pc = "tf290" ->
              \* return address;  then  if (result == flaggedPredecessor)
              IF ReportsInstalled(mem[f.prev].successor, flaggedPredecessor)
                THEN Step(t, Pop(t), Flagging(f.prev, TRUE, TRUE))
                ELSE Step(t, Jump(t, [f EXCEPT !.pc = "tf297"]), NoRet)
         [] f.pc = "tf297" ->
              \* while (prevNode->successor.load().marked())
              IF marked(mem[f.prev].successor)
                THEN Step(t, Jump(t, [f EXCEPT !.pc = "tf298"]), NoRet)
              ELSE IF Faults({f.target}) THEN NullDeref
                ELSE Step(t, Push(t, [f EXCEPT !.pc = "tf303"],
                                  SRFrame(mem[f.target].key - 1, f.prev)), NoRet)
         [] f.pc = "tf298" ->
              Step(t, Jump(t, [f EXCEPT !.prev = mem[f.prev].backLink,
                                        !.pc = "tf297"]), NoRet)
         [] f.pc = "tf303" ->
              IF ret[t].second # f.target
                THEN Step(t, Pop(t), Flagging(ret[t].first, FALSE, FALSE))
                ELSE Step(t, Jump(t, [f EXCEPT !.prev = ret[t].first,
                                               !.pc = "tf282"]), NoRet)

(* ---------------------------- insertNode ------------------------------ *)
\* line 330: the victim handed to helpFlagged is read by a second load
FlaggedVictim(firstLoad, secondLoad) == right(secondLoad)

InsertNode(t) ==
    /\ Runs(t, {"in321", "in328", "in330", "in335", "in336", "in346", "in348",
                "in355", "in356"})
    /\ LET f == Top(t)
           newSuccessor == Successor(f.new, FALSE, FALSE)
           expected == Successor(f.next, FALSE, FALSE)
       IN
       IF Faults(IF f.pc = "in356" THEN {ret[t].first}
                 ELSE IF f.pc = "in355" THEN {} ELSE {f.prev}) THEN NullDeref
       ELSE
       CASE f.pc = "in321" ->
              IF mem[f.prev].key = mem[f.new].key
                THEN Step(t, Pop(t), Pair(f.prev, Null))
                ELSE Step(t, Jump(t, [f EXCEPT !.pc = "in328"]), NoRet)
         [] f.pc = "in328" ->
              \* if (prevSuccessor.load().flagged())
              IF flagged(mem[f.prev].successor)
                THEN Step(t, Jump(t, [f EXCEPT !.pc = "in330",
                                               !.seen = mem[f.prev].successor]), NoRet)
                ELSE Step(t, Jump(t, [f EXCEPT !.pc = "in335"]), NoRet)
         [] f.pc = "in330" ->
              \* helpFlagged(prevNode, prevSuccessor.load().right()); f.seen is the
              \* word the load of line 328 saw
              Step(t, Push(t, [f EXCEPT !.pc = "in355", !.seen = 0],
                           HFFrame(f.prev, FlaggedVictim(f.seen, mem[f.prev].successor))),
                   NoRet)
         [] f.pc = "in335" ->
              \* newNode->successor = {nextNode, false, false};  CAS(prevSuccessor, ...)
              \E sp \in SpuriousChoices(mem[f.prev].successor, expected) :
                IF CompareExchangeWeak(mem[f.prev].successor, expected, sp)
                  THEN /\ stack' = Pop(t)
                       /\ ret' = [ret EXCEPT ![t] = Pair(f.prev, f.new)]
                       /\ mem' = [mem EXCEPT ![f.new].successor = expected,
                                             ![f.prev].successor = newSuccessor]
                       /\ UNCHANGED <<ops, phase, crashed, spur, scen, everFlagged, markedUnflagged>>
                  ELSE StepSucc(t, Jump(t, [f EXCEPT !.pc = "in336"]), NoRet,
                                f.new, expected, IF sp THEN spur + 1 ELSE spur)
         [] f.pc = "in336" ->
              \* return address;  if (result == newSuccessor) ... else ...
              LET result == mem[f.prev].successor IN
              IF ReportsInstalled(result, newSuccessor)
                THEN Step(t, Pop(t), Pair(f.prev, f.new))
              ELSE IF flagged(result)
                THEN Step(t, Push(t, [f EXCEPT !.pc = "in346"],
                                  HFFrame(f.prev, right(result))), NoRet)
              ELSE Step(t, Jump(t, [f EXCEPT !.pc = "in346"]), NoRet)
         [] f.pc = "in346" ->
              \* while (prevNode->successor.load().marked())
              IF marked(mem[f.prev].successor)
                THEN Step(t, Jump(t, [f EXCEPT !.pc = "in348"]), NoRet)
                ELSE Step(t, Jump(t, [f EXCEPT !.pc = "in355"]), NoRet)
         [] f.pc = "in348" ->
              Step(t, Jump(t, [f EXCEPT !.prev = mem[f.prev].backLink,
                                        !.pc = "in346"]), NoRet)
         [] f.pc = "in355" ->
              Step(t, Push(t, [f EXCEPT !.pc = "in356"],
                           SRFrame(mem[f.new].key, f.prev)), NoRet)
         [] f.pc = "in356" ->
              IF mem[ret[t].first].key = mem[f.new].key
                THEN Step(t, Pop(t), Pair(ret[t].first, Null))
                ELSE Step(t, Jump(t, [f EXCEPT !.prev = ret[t].first,
                                               !.next = ret[t].second,
                                               !.pc = "in328"]), NoRet)

(* ---------------------------- deleteNode ------------------------------ *)
\* a deleteNode that hands back the node whatever tryFlagNode reported
DeleteNodeResult_Always(result, delNode) == delNode

\* lines 380-385: what deleteNode returns
DeleteNodeResult(result, delNode) == IF result = FALSE THEN Null ELSE delNode

DeleteNode(t) ==
    /\ Runs(t, {"dn373", "dn375", "dn380"})
    /\ LET f == Top(t) IN
       CASE f.pc = "dn373" ->
              Step(t, Push(t, [f EXCEPT !.pc = "dn375"], TFFrame(f.prev, f.del)), NoRet)
         [] f.pc = "dn375" ->
              LET g == [f EXCEPT !.prev = ret[t].first, !.status = ret[t].status,
                                 !.result = ret[t].result, !.pc = "dn380"] IN
              IF ret[t].status
                THEN Step(t, Push(t, g, HFFrame(g.prev, g.del)), NoRet)
                ELSE Step(t, Jump(t, g), NoRet)
         [] f.pc = "dn380" ->
              Step(t, Pop(t), Pair(f.prev, DeleteNodeResult(f.result, f.del)))

(* ------------------- helpFlagged, helpMarked, tryMark ----------------- *)
HelpFlagged(t) ==
    /\ Runs(t, {"hf403", "hf404", "hf409"})
    /\ LET f == Top(t) IN
       IF Faults(IF f.pc = "hf409" THEN {} ELSE {f.del}) THEN NullDeref
       ELSE
       CASE f.pc = "hf403" ->
              \* delNode->backLink.store(prevNode)
              /\ stack' = Jump(t, [f EXCEPT !.pc = "hf404"])
              /\ mem' = [mem EXCEPT ![f.del].backLink = f.prev]
              /\ UNCHANGED <<ret, ops, phase, crashed, spur, scen, everFlagged, markedUnflagged>>
         [] f.pc = "hf404" ->
              IF marked(mem[f.del].successor) = FALSE
                THEN Step(t, Push(t, [f EXCEPT !.pc = "hf409"], TMFrame(f.del)), NoRet)
                ELSE Step(t, Jump(t, HMFrame(f.prev, f.del)), NoRet)
         [] f.pc = "hf409" ->
              \* helpMarked(prevNode, delNode) is the last statement of helpFlagged
              Step(t, Jump(t, HMFrame(f.prev, f.del)), NoRet)

HelpMarked(t) ==
    /\ Runs(t, {"hm393", "hm394"})
    /\ LET f == Top(t) IN
       IF Faults(IF f.pc = "hm393" THEN {f.del} ELSE {f.prev}) THEN NullDeref
       ELSE
       CASE f.pc = "hm393" ->
              Step(t, Jump(t, [f EXCEPT !.next = right(mem[f.del].successor),
                                        !.pc = "hm394"]), NoRet)
         [] f.pc = "hm394" ->
              \* CAS(prevNode->successor, {delNode, false, true}, {nextNode, false, false});
              \* the value CAS() returns is not used
              LET old == Successor(f.del, FALSE, TRUE) IN
              \E sp \in SpuriousChoices(mem[f.prev].successor, old) :
                IF CompareExchangeWeak(mem[f.prev].successor, old, sp)
                  THEN StepSucc(t, Pop(t), NoRet, f.prev,
                                Successor(f.next, FALSE, FALSE), spur)
                  ELSE StepSucc(t, Pop(t), NoRet, f.prev, mem[f.prev].successor,
                                IF sp THEN spur + 1 ELSE spur)

TryMark(t) ==
    /\ Runs(t, {"tm417", "tm418", "tm419", "tm424"})
    /\ LET f == Top(t) IN
       IF Faults({f.del}) THEN NullDeref
       ELSE
       CASE f.pc = "tm417" ->
              Step(t, Jump(t, [f EXCEPT !.next = right(mem[f.del].successor),
                                        !.pc = "tm418"]), NoRet)
         [] f.pc = "tm418" ->
              LET old == Successor(f.next, FALSE, FALSE) IN
              \E sp \in SpuriousChoices(mem[f.del].successor, old) :
                IF CompareExchangeWeak(mem[f.del].successor, old, sp)
                  THEN StepSucc(t, Jump(t, [f EXCEPT !.pc = "tm424"]), NoRet, f.del,
                                Successor(f.next, TRUE, FALSE), spur)
                  ELSE StepSucc(t, Jump(t, [f EXCEPT !.pc = "tm419"]), NoRet, f.del,
                                mem[f.del].successor, IF sp THEN spur + 1 ELSE spur)
         [] f.pc = "tm419" ->
              \* return address;  if (result.flagged()) helpFlagged(delNode, result.right())
              LET result == mem[f.del].successor IN
              IF flagged(result)
                THEN Step(t, Push(t, [f EXCEPT !.pc = "tm424"],
                                  HFFrame(f.del, right(result))), NoRet)
                ELSE Step(t, Jump(t, [f EXCEPT !.pc = "tm424"]), NoRet)
         [] f.pc = "tm424" ->
              \* while (delNode->successor.load().marked() != true)
              IF marked(mem[f.del].successor)
                THEN Step(t, Pop(t), NoRet)
                ELSE Step(t, Jump(t, [f EXCEPT !.pc = "tm417"]), NoRet)


(* ---------------------- findStart, searchToLevel ---------------------- *)
\* a findStart that stops at the first empty level, whatever v is
FindStartContinues_IgnoreLevel(aboveKey, currV, v) == aboveKey # MAX_KEY

\* line 233: the level above is not empty, or level v is not reached yet
FindStartContinues(aboveKey, currV, v) == aboveKey # MAX_KEY \/ currV < v

FindStart(t) ==
    /\ Runs(t, {"fs233"})
    /\ LET f == Top(t)
           upNode == mem[f.curr].up
       IN
       \* while (currNode->up->successor.load().right()->key() != MAX_KEY || currV < v)
       IF Faults({f.curr}) THEN NullDeref
       ELSE IF Faults({upNode}) THEN NullDeref
       ELSE IF Faults({right(mem[upNode].successor)}) THEN NullDeref
       ELSE IF FindStartContinues(mem[right(mem[upNode].successor)].key, f.currV, f.v)
         THEN Step(t, Jump(t, [f EXCEPT !.curr = upNode, !.currV = f.currV + 1]), NoRet)
         ELSE Step(t, Pop(t), [first |-> f.curr, level |-> f.currV])

\* one round of the descent of searchToLevel from currNode on level currV
Descend(t, f, currNode, currV) ==
    Step(t, Push(t, [f EXCEPT !.curr = currNode, !.currV = currV,
                              !.pc = IF currV > f.v THEN "stl218" ELSE "stl223"],
                 SRFrame(f.k, currNode)), NoRet)

SearchToLevel(t) ==
    /\ Runs(t, {"stl213", "stl214", "stl218", "stl223"})
    /\ LET f == Top(t) IN
       CASE f.pc = "stl213" ->
              Step(t, Push(t, [f EXCEPT !.pc = "stl214"], FSFrame(f.v)), NoRet)
         [] f.pc = "stl214" ->
              Descend(t, f, ret[t].first, ret[t].level)
         [] f.pc = "stl218" ->
              \* currNode = currNode->down;  currV--;
              IF Faults({ret[t].first}) THEN NullDeref
              ELSE Descend(t, f, mem[ret[t].first].down, f.currV - 1)
         [] f.pc = "stl223" ->
              Step(t, Pop(t), ret[t])

(* ------------------- searchToLevelAndCacheResults --------------------- *)
\* cache[currV] = {currNode, nextNode} on a vector of MAX_LEVEL + 1 slots: a
\* store past the end leaves the vector as it is and may abort the process
CacheStoreOutcomes(cache, currV) ==
    IF currV \in DOMAIN cache THEN {"stored"} ELSE {"lost", "abort"}

SearchToLevelAndCacheResults(t) ==
    /\ Runs(t, {"c465", "c476"})
    /\ LET f == Top(t) IN
       CASE f.pc = "c465" ->
              \* while (currNode->successor.load().right()->key() != MAX_KEY)
              IF Faults({f.curr}) THEN NullDeref
              ELSE IF Faults({right(mem[f.curr].successor)}) THEN NullDeref
              ELSE IF mem[right(mem[f.curr].successor)].key # MAX_KEY
                THEN Step(t, Jump(t, [f EXCEPT !.currV = f.currV + 1,
                                               !.curr = mem[f.curr].up]), NoRet)
                ELSE Step(t, Push(t, [f EXCEPT !.pc = "c476"], SRFrame(f.k, f.curr)),
                          NoRet)
         [] f.pc = "c476" ->
              \E outcome \in CacheStoreOutcomes(f.cache, f.currV) :
                IF outcome = "abort" \/ Faults({ret[t].first}) THEN NullDeref
                ELSE LET cache == IF outcome = "stored"
                                    THEN [f.cache EXCEPT ![f.currV] =
                                            <<ret[t].first, ret[t].second>>]
                                    ELSE f.cache
                         g == [f EXCEPT !.cache = cache,
                                        !.curr = mem[ret[t].first].down,
                                        !.currV = f.currV - 1]
                     IN IF g.currV >= 1
                          THEN Step(t, Push(t, g, SRFrame(g.k, g.curr)), NoRet)
                          ELSE Step(t, Pop(t), [cache |-> cache])

(* ------------------------ the public operations ----------------------- *)
None == [ok |-> FALSE, val |-> 0]
Some(e) == [ok |-> TRUE, val |-> e]

\* the call returns to the caller of the map
Complete(t, result, out) ==
    /\ stack' = Pop(t)
    /\ ret' = [ret EXCEPT ![t] = NoRet]
    /\ ops' = [ops EXCEPT ![t][Len(ops[t])] =
                 [@ EXCEPT !.done = TRUE, !.ok = result.ok, !.val = result.val,
                           !.out = out]]
    /\ UNCHANGED <<mem, phase, crashed, spur, scen, everFlagged, markedUnflagged>>

\* new Node(...): every allocation yields a node no other allocation yields
OpSlots == MaxOps + 2
NodeId(t, i, level) == 2 * NumLevels + ((t * OpSlots) + (i - 1)) * MAX_LEVEL + level
Alloc(m, id, node) == [n \in (DOMAIN m) \cup {id} |-> IF n = id THEN node ELSE m[n]]

\* a height loop without the bound towerHeight <= MAX_LEVEL - 1
TowerHeight_Uncapped(towerHeight, heads) == towerHeight + heads

\* lines 113-116: flipCoin() yields 1 for the first `heads` flips, then 0
RECURSIVE TowerHeight(_, _)
TowerHeight(towerHeight, heads) ==
    IF heads > 0 /\ towerHeight <= MAX_LEVEL - 1
      THEN TowerHeight(towerHeight + 1, heads - 1)
      ELSE towerHeight

\* the runs of heads the coin may produce in this family of runs
Coins(t) == IF scen.kind = "seq" THEN 0 .. MAX_LEVEL ELSE scen.coins

InsertFrame(key, element) ==
    [pc |-> "ins100", key |-> key, element |-> element, prev |-> Null, next |-> Null,
     root |-> Null, new |-> Null, towerHeight |-> 1, currV |-> 1, result |-> Null,
     cache |-> EmptyCache]

\* an insert that never notices that its root was not spliced in
RootNotInserted_Never(result, currV) == FALSE

\* line 103 and line 126: the two places where insert reports a duplicate
KeyAlreadyInList(prevKey, key) == prevKey = key
RootNotInserted(result, currV) == result = Null /\ currV = 1

\* an insert that takes the level-1 pair of the cache for every level
CachedPair_LevelOne(cache, currV) == cache[1]

\* lines 100, 151-155: cache[currV]
CachedPair(cache, currV) == cache[currV]

Insert(t) ==
    /\ Runs(t, {"ins100", "ins123", "ins133", "ins138", "ins153"})
    /\ LET f == Top(t) IN
       CASE f.pc = "ins100" ->
              LET cache == ret[t].cache
                  prevNode == CachedPair(cache, 1)[1]
                  nextNode == CachedPair(cache, 1)[2]
                  newRNode == NodeId(t, Len(ops[t]), 1)
              IN
              IF Faults({prevNode}) THEN NullDeref
              ELSE IF KeyAlreadyInList(mem[prevNode].key, f.key)
                THEN Complete(t, None, <<>>)
                ELSE \E heads \in Coins(t) :
                       /\ stack' = Push(t, [f EXCEPT !.pc = "ins123", !.cache = cache,
                                                     !.root = newRNode, !.new = newRNode,
                                                     !.towerHeight = TowerHeight(1, heads)],
                                        INFrame(newRNode, prevNode, nextNode))
                       /\ mem' = Alloc(mem, newRNode, RootNode(newRNode, f.key, f.element))
                       /\ ret' = [ret EXCEPT ![t] = NoRet]
                       /\ UNCHANGED <<ops, phase, crashed, spur, scen, everFlagged, markedUnflagged>>
         [] f.pc = "ins123" ->
              IF RootNotInserted(ret[t].second, f.currV)
                THEN Complete(t, None, <<>>)
                ELSE Step(t, Jump(t, [f EXCEPT !.prev = ret[t].first,
                                               !.result = ret[t].second,
                                               !.pc = "ins133"]), NoRet)
         [] f.pc = "ins133" ->
              \* if (newRNode->successor.load().marked())
              IF marked(mem[f.root].successor)
                THEN IF f.result = f.new /\ f.new # f.root
                       THEN Step(t, Push(t, [f EXCEPT !.pc = "ins138"],
                                         DNFrame(f.prev, f.new)), NoRet)
                       ELSE Complete(t, Some(0), <<>>)
              ELSE IF f.currV + 1 = f.towerHeight + 1
                THEN Complete(t, Some(0), <<>>)
              ELSE LET currV == f.currV + 1
                       newNode == NodeId(t, Len(ops[t]), currV)
                       g == [f EXCEPT !.currV = currV, !.new = newNode]
                   IN
                   /\ mem' = Alloc(mem, newNode, TowerNode(f.key, f.new, f.root))
                   /\ ret' = [ret EXCEPT ![t] = NoRet]
                   /\ stack' = IF CachedPair(f.cache, currV)[1] = Null
                                 THEN Push(t, [g EXCEPT !.pc = "ins153"],
                                           STLFrame(f.key, currV))
                                 ELSE Push(t, [g EXCEPT !.pc = "ins123"],
                                           INFrame(newNode,
                                                   CachedPair(f.cache, currV)[1],
                                                   CachedPair(f.cache, currV)[2]))
                   /\ UNCHANGED <<ops, phase, crashed, spur, scen, everFlagged, markedUnflagged>>
         [] f.pc = "ins138" ->
              Complete(t, Some(0), <<>>)
         [] f.pc = "ins153" ->
              Step(t, Push(t, [f EXCEPT !.pc = "ins123"],
                           INFrame(f.new, ret[t].first, ret[t].second)), NoRet)

\* a remove that searches for the key itself
RemoveSearchKey_Key(key) == key

\* a remove that does not compare the key of the node it found
KeyNotFound_Never(delKey, key) == FALSE

\* line 182: remove searches for key - 1, so that the key's node is the successor
RemoveSearchKey(key) == key - 1
\* line 185: the node found is not the key's
KeyNotFound(delKey, key) == delKey # key

Find(t) ==
    /\ Runs(t, {"find169"})
    /\ LET f == Top(t)
           currNode == ret[t].first
       IN
       IF Faults({currNode}) THEN NullDeref
       ELSE IF mem[currNode].key = f.key
         THEN Complete(t, Some(mem[currNode].element), <<>>)
         ELSE Complete(t, None, <<>>)

Remove(t) ==
    /\ Runs(t, {"rem185", "rem191", "rem197"})
    /\ LET f == Top(t) IN
       CASE f.pc = "rem185" ->
              IF Faults({ret[t].second}) THEN NullDeref
              ELSE IF KeyNotFound(mem[ret[t].second].key, f.key)
                THEN Complete(t, None, <<>>)
                ELSE Step(t, Push(t, [f EXCEPT !.del = ret[t].second, !.pc = "rem191"],
                                  DNFrame(ret[t].first, ret[t].second)), NoRet)
         [] f.pc = "rem191" ->
              IF ret[t].second = Null
                THEN Complete(t, None, <<>>)
                ELSE Step(t, Push(t, [f EXCEPT !.pc = "rem197"], STLFrame(f.key, 2)),
                          NoRet)
         [] f.pc = "rem197" ->
              Complete(t, Some(mem[f.del].element), <<>>)

\* for (it = begin(); it != end(); ++it) visit(*it)
Iterate(t) ==
    /\ Runs(t, {"it200", "it54"})
    /\ LET f == Top(t)
           m_ptr == IF f.pc = "it200" THEN right(mem[head].successor)
                                      ELSE right(mem[f.ptr].successor)
       IN
       IF m_ptr = tail
         THEN Complete(t, None, f.out)
       ELSE IF m_ptr = Null THEN NullDeref
       ELSE Step(t, Jump(t, [f EXCEPT !.ptr = m_ptr, !.pc = "it54",
                                      !.out = Append(f.out, <<mem[m_ptr].key,
                                                              mem[m_ptr].element>>)]),
                 NoRet)

(* ------------------------------ the callers --------------------------- *)
ElementOf(t, i) == 100 * (t + 1) + i

DoneCount(t) == Cardinality({i \in 1 .. Len(ops[t]) : ops[t][i].done})

OpRecord(t, op, key) ==
    [op |-> op, key |-> key, element |-> ElementOf(t, Len(ops[t]) + 1),
     done |-> FALSE, ok |-> FALSE, val |-> 0, out |-> <<>>,
     before |-> [u \in Threads |-> DoneCount(u)]]

EntryFrames(t, op, key) ==
    CASE op = "insert" ->
           <<InsertFrame(key, ElementOf(t, Len(ops[t]) + 1)), CacheFrame(key)>>
      [] op = "find" -> <<[pc |-> "find169", key |-> key], STLFrame(key, 1)>>
      [] op = "remove" ->
           <<[pc |-> "rem185", key |-> key, del |-> Null],
             STLFrame(RemoveSearchKey(key), 1)>>
      [] op = "iterate" -> <<[pc |-> "it200", ptr |-> Null, out |-> <<>>]>>

AllCalls ==
    {[op |-> o, key |-> k] : o \in {"insert", "find", "remove"}, k \in Keys}
        \cup {[op |-> "iterate", key |-> 0]}

\* a program: the calls of the main thread before the workers start, of
\* each worker, and of the main thread after the workers are joined, and the
\* runs of heads the coin may produce
\* (each position of a program is the set of calls the thread chooses from)
Program(pre, par, post, coins) ==
    [kind |-> "par", pre |-> pre, par |-> par, post |-> post, coins |-> coins]
Ins(k) == {[op |-> "insert", key |-> k]}
Fnd(k) == {[op |-> "find", key |-> k]}
Rem(k) == {[op |-> "remove", key |-> k]}
Itr == {[op |-> "iterate", key |-> 0]}

NextOf(calls, n) == IF n < Len(calls) THEN calls[n + 1] ELSE {}

\* the calls thread t may make next in this family of runs
Offered(t) ==
    IF scen.kind = "seq"
      THEN IF t = Main /\ Len(ops[Main]) < MaxOps THEN AllCalls ELSE {}
    ELSE IF t = Main
      THEN IF phase = "pre" THEN NextOf(scen.pre, Len(ops[Main]))
           ELSE IF phase = "post"
             THEN NextOf(scen.post, Len(ops[Main]) - Len(scen.pre))
           ELSE {}
    ELSE IF phase = "par" /\ t \in DOMAIN scen.par
      THEN NextOf(scen.par[t], Len(ops[t]))
    ELSE {}

\* a thread calls insert, find, remove or iterates
Call(t) ==
    /\ ~crashed
    /\ Idle(t)
    /\ \A u \in Threads \ {t} : ~AtLocal(u)
    /\ \E c \in Offered(t) :
         /\ stack' = [stack EXCEPT ![t] = EntryFrames(t, c.op, c.key)]
         /\ ops' = [ops EXCEPT ![t] = Append(@, OpRecord(t, c.op, c.key))]
    /\ UNCHANGED <<mem, ret, phase, crashed, spur, scen, everFlagged, markedUnflagged>>

ThreadStep(t) ==
    \/ Call(t)
    \/ Insert(t)
    \/ Find(t)
    \/ Remove(t)
    \/ Iterate(t)
    \/ SearchToLevelAndCacheResults(t)
    \/ SearchToLevel(t)
    \/ FindStart(t)
    \/ SearchRight(t)
    \/ TryFlagNode(t)
    \/ InsertNode(t)
    \/ DeleteNode(t)
    \/ HelpFlagged(t)
    \/ HelpMarked(t)
    \/ TryMark(t)

InitCommon ==
    /\ mem = Constructor
    /\ stack = [t \in Threads |-> <<>>]
    /\ ret = [t \in Threads |-> NoRet]
    /\ ops = [t \in Threads |-> <<>>]
    /\ phase = "pre"
    /\ crashed = FALSE
    /\ spur = 0
    /\ everFlagged = {}
    /\ markedUnflagged = {}

(* single-threaded runs: the main thread makes up to MaxOps calls *)
InitSeq == InitCommon /\ scen = [kind |-> "seq"]
NextSeq == ThreadStep(Main)
SpecSeq == InitSeq /\ [][NextSeq]_vars

(* concurrent runs: the main thread fills the map, starts the workers,     *)
(* joins them and looks at the result, as the multi-threaded tests do      *)
WorkersFinished ==
    \A w \in Workers :
        /\ Idle(w)
        /\ w \in DOMAIN scen.par => Len(ops[w]) = Len(scen.par[w])

\* std::thread t0{...}; std::thread t1{...};
Spawn ==
    /\ ~crashed /\ phase = "pre" /\ Idle(Main)
    /\ Len(ops[Main]) = Len(scen.pre)
    /\ phase' = "par"
    /\ UNCHANGED <<mem, stack, ret, ops, crashed, spur, scen, everFlagged, markedUnflagged>>

\* t0.join(); t1.join();
Join ==
    /\ ~crashed /\ phase = "par" /\ WorkersFinished
    /\ phase' = "post"
    /\ UNCHANGED <<mem, stack, ret, ops, crashed, spur, scen, everFlagged, markedUnflagged>>

Two(a, b) == (1 :> a) @@ (2 :> b)

\* two threads remove the key the main thread inserted
RemoveRace ==
    {Program(<<Ins(1)>>, Two(<<Rem(1)>>, <<Rem(1)>>), <<Fnd(1)>>, 0 .. MAX_LEVEL)}

\* two threads insert the same absent key, one of them after removing another
InsertRace ==
    {Program(<<Ins(2)>>, Two(<<Ins(1)>>, <<Rem(2), Ins(1)>>), <<Fnd(1)>>, {0})}

\* the threads work on disjoint keys (InsertRemoveFind, CMakeLists.txt 271-346)
DisjointKeys ==
    {Program(<<>>,
             Two(<<Ins(1)>>, <<Ins(2), Ins(3), Rem(2), Ins(3) \cup Fnd(3), Itr>>),
             <<>>, {0})}

\* a thread removes a key and looks it up while the other works on other keys
OtherKeyCalls == {<<Ins(1)>>, <<Ins(3)>>, <<Rem(1)>>, <<Rem(3)>>}
FindAfterRemove ==
    {Program(pre, Two(<<Rem(2), Fnd(2)>>, other), <<>>, 0 .. MAX_LEVEL) :
        pre \in {<<Ins(2)>>, <<Ins(1), Ins(2)>>, <<Ins(2), Ins(3)>>},
        other \in OtherKeyCalls}
    \cup {Program(<<Ins(2)>>, Two(<<Rem(2), Fnd(2)>>, <<Ins(3), Rem(3)>>), <<>>,
                  0 .. MAX_LEVEL)}

\* a thread removes a key while the other still builds its tower
TowerRace ==
    {Program(<<>>, Two(<<Ins(1)>>, <<Rem(1)>>), <<Fnd(1)>>, {MAX_LEVEL})}

Programs ==
    RemoveRace \cup InsertRace \cup DisjointKeys \cup FindAfterRemove \cup TowerRace

Init == InitCommon /\ scen \in Programs
Next == Spawn \/ Join \/ (\E t \in Threads : ThreadStep(t))
Spec == Init /\ [][Next]_vars

(* ----------------- what the properties are stated with ---------------- *)
\* the nodes linked on a level, from the head's successor up to the tail
RECURSIVE ChainFrom(_, _, _)
ChainFrom(n, stop, fuel) ==
    IF n = stop \/ n = Null \/ fuel = 0 THEN <<>>
    ELSE <<n>> \o ChainFrom(right(mem[n].successor), stop, fuel - 1)

LevelList(l) ==
    ChainFrom(right(mem[HeadOf(l)].successor), TailOf(l), Cardinality(DOMAIN mem))

SelectLive(chain) == SelectSeq(chain, LAMBDA n : ~marked(mem[n].successor))
EntryOf(n) == <<mem[n].key, mem[n].element>>
EntriesOf(chain) == [i \in 1 .. Len(chain) |-> EntryOf(chain[i])]

\* the entries of the level-1 nodes that are linked and not marked
LiveEntries == EntriesOf(SelectLive(LevelList(1)))
LiveKeys == {LiveEntries[i][1] : i \in 1 .. Len(LiveEntries)}

\* the reference: a sorted map, as a function key -> element (0: no entry)
EmptyMap == [k \in Keys |-> 0]

RefApply(m, o) ==
    CASE o.op = "insert" -> IF m[o.key] = 0 THEN [m EXCEPT ![o.key] = o.element] ELSE m
      [] o.op = "remove" -> [m EXCEPT ![o.key] = 0]
      [] OTHER -> m

RECURSIVE RefAfter(_)
RefAfter(calls) ==
    IF calls = <<>> THEN EmptyMap
    ELSE RefApply(RefAfter(SubSeq(calls, 1, Len(calls) - 1)), calls[Len(calls)])

RECURSIVE RefEntriesFrom(_, _)
RefEntriesFrom(m, k) ==
    IF k > MaxKey THEN <<>>
    ELSE (IF m[k] = 0 THEN <<>> ELSE << <<k, m[k]>> >>) \o RefEntriesFrom(m, k + 1)
RefEntries(m) == RefEntriesFrom(m, 1)

RefResult(m, o) ==
    CASE o.op = "insert" -> [ok |-> m[o.key] = 0, val |-> 0]
      [] OTHER -> IF m[o.key] = 0 THEN None ELSE Some(m[o.key])

ResultOf(o) == [ok |-> o.ok, val |-> o.val]
Before(t, i) == SubSeq(ops[t], 1, i - 1)
Quiescent == \A t \in Threads : Idle(t)


(* the calls of a run, and which of them returned before which was made *)
Calls == {c \in Threads \X (1 .. OpSlots) : c[2] <= Len(ops[c[1]])}
CallOf(c) == ops[c[1]][c[2]]
Precedes(c, d) ==
    /\ CallOf(c).done
    /\ IF c[1] = d[1] THEN c[2] < d[2] ELSE CallOf(d).before[c[1]] >= c[2]
Concurrent(c, d) == c # d /\ ~Precedes(c, d) /\ ~Precedes(d, c)
On(c, op, k) == CallOf(c).op = op /\ CallOf(c).key = k
Won(c) == CallOf(c).done /\ CallOf(c).ok
Lost(c) == CallOf(c).done /\ ~CallOf(c).ok


\* the nodes insert call c allocates, and whether one of them was ever linked
\* (a node that was linked and unlinked again stays marked)
RootOf(c) == NodeId(c[1], c[2], 1)
TowerOf(c) == {NodeId(c[1], c[2], l) : l \in 1 .. MAX_LEVEL}
Linked(n) == \E p \in DOMAIN mem : right(mem[p].successor) = n
EverLinked(n) == n \in DOMAIN mem /\ (Linked(n) \/ marked(mem[n].successor))
NeverRemoved(k) == \A r \in Calls : ~On(r, "remove", k)

(* ---------------------------------------------------------------------- *)
(* C1: once every call has returned, the calls can be put in a total order *)
(* that respects which call returned before which was made and in which    *)
(* every insert, find and remove returns what a sorted map returns.        *)
(* ---------------------------------------------------------------------- *)
RECURSIVE CanLinearize(_, _)
CanLinearize(remaining, m) ==
    \/ remaining = {}
    \/ \E c \in remaining :
         /\ \A d \in remaining : ~Precedes(d, c)
         /\ CallOf(c).op = "iterate" \/ ResultOf(CallOf(c)) = RefResult(m, CallOf(c))
         /\ CanLinearize(remaining \ {c}, RefApply(m, CallOf(c)))

C1_Linearizable == (Quiescent /\ ~crashed) => CanLinearize(Calls, EmptyMap)

(* ---------------------------------------------------------------------- *)
(* C4: of two concurrent remove(k) calls for a key inserted once, with no  *)
(* other insert(k), exactly one returns the element.                       *)
(* ---------------------------------------------------------------------- *)
C4_OneRemoveReturnsElement ==
    \A c, d \in Calls :
        \A k \in Keys :
            (/\ On(c, "remove", k) /\ On(d, "remove", k)
             /\ CallOf(c).done /\ CallOf(d).done
             /\ Concurrent(c, d)
             /\ \E e \in Calls :
                   /\ On(e, "insert", k) /\ Won(e)
                   /\ Precedes(e, c) /\ Precedes(e, d)
                   /\ \A x \in Calls \ {c, d, e} : CallOf(x).key # k)
            => (CallOf(c).ok # CallOf(d).ok)

(* ---------------------------------------------------------------------- *)
(* C3: of two concurrent insert(k) calls for a key no other call inserts   *)
(* or removes, exactly one returns true, the root node of the other is     *)
(* never linked, and every find(k) made after both returned yields the     *)
(* element of the call that returned true.                                 *)
(* ---------------------------------------------------------------------- *)
C3_OneInsertWins ==
    \A c, d \in Calls :
        \A k \in Keys :
            (/\ On(c, "insert", k) /\ On(d, "insert", k)
             /\ CallOf(c).done /\ CallOf(d).done
             /\ Concurrent(c, d)
             /\ \A x \in Calls \ {c, d} :
                   CallOf(x).key = k =>
                       CallOf(x).op = "find" /\ Precedes(c, x) /\ Precedes(d, x))
            => /\ CallOf(c).ok # CallOf(d).ok
               /\ \A l \in {c, d} : Lost(l) => ~EverLinked(RootOf(l))
               /\ \A x \in Calls :
                     (On(x, "find", k) /\ CallOf(x).done) =>
                         \E w \in {c, d} :
                             Won(w) /\ ResultOf(CallOf(x)) = Some(CallOf(w).element)

(* ---------------------------------------------------------------------- *)
(* C5: when no key is used by two threads, every find(k) made after an     *)
(* insert(k) returned true, in a run in which remove(k) is never called,   *)
(* returns the element that insert stored.                                 *)
(* ---------------------------------------------------------------------- *)
KeysArePartitioned ==
    \A c, d \in Calls :
        (c[1] # d[1] /\ CallOf(c).op # "iterate" /\ CallOf(d).op # "iterate")
            => CallOf(c).key # CallOf(d).key

C5_UnremovedKeyStaysPresent ==
    KeysArePartitioned =>
        \A e, x \in Calls :
            \A k \in Keys :
                (/\ On(e, "insert", k) /\ Won(e)
                 /\ On(x, "find", k) /\ CallOf(x).done
                 /\ Precedes(e, x)
                 /\ NeverRemoved(k))
                => ResultOf(CallOf(x)) = Some(CallOf(e).element)

(* ---------------------------------------------------------------------- *)
(* C6: a find(k) made after a remove(k) returned the element, every        *)
(* insert(k) having returned before that remove was called, returns empty. *)
(* ---------------------------------------------------------------------- *)
FindAfterRemoved(r, x, k) ==
    /\ On(r, "remove", k) /\ Won(r)
    /\ On(x, "find", k) /\ CallOf(x).done
    /\ Precedes(r, x)
    /\ \A i \in Calls : On(i, "insert", k) => Precedes(i, r)

C6_FindAfterRemoveIsEmpty ==
    \A r, x \in Calls :
        \A k \in Keys : FindAfterRemoved(r, x, k) => ~CallOf(x).ok

\* the find ran while another thread was inserting or removing another key
C6_Witness ==
    \E r, x, o \in Calls :
        /\ FindAfterRemoved(r, x, 2)
        /\ CallOf(o).op \in {"insert", "remove"} /\ CallOf(o).key # 2
        /\ Concurrent(o, x) /\ Concurrent(o, r)
        /\ CallOf(o).done /\ CallOf(o).ok

(* ---------------------------------------------------------------------- *)
(* C7: an insert(k) made after an insert(k) returned true, in a run in     *)
(* which remove(k) is never called and no other call on k overlaps it,     *)
(* returns false, links none of its nodes, and every later find(k) still   *)
(* returns the first element.                                              *)
(* ---------------------------------------------------------------------- *)
C7_DuplicateInsertRejected ==
    \A e, d \in Calls :
        \A k \in Keys :
            (/\ On(e, "insert", k) /\ Won(e)
             /\ On(d, "insert", k) /\ CallOf(d).done
             /\ Precedes(e, d)
             /\ NeverRemoved(k)
             /\ \A x \in Calls \ {d} : CallOf(x).key = k => ~Concurrent(x, d))
            => /\ Lost(d)
               /\ \A n \in TowerOf(d) : ~EverLinked(n)
               /\ \A x \in Calls :
                     (On(x, "find", k) /\ CallOf(x).done /\ Precedes(d, x)) =>
                         ResultOf(CallOf(x)) = Some(CallOf(e).element)

RemovingAbsentKey ==
    /\ ~Idle(Main)
    /\ LET o == ops[Main][Len(ops[Main])] IN
       o.op = "remove" /\ RefAfter(Before(Main, Len(ops[Main])))[o.key] = 0

C8_RemoveAbsentKeepsEntries ==
    [][RemovingAbsentKey =>
          /\ LiveEntries' = LiveEntries
          /\ Idle(Main)' => ~ops'[Main][Len(ops[Main])].ok]_vars

\* remove(k) returned the element and the remove(k) right after it returned empty
C8_Witness ==
    /\ Len(ops[Main]) = 3
    /\ \A i \in 1 .. 3 : ops[Main][i].done
    /\ ops[Main][1].op = "insert"
    /\ ops[Main][2].op = "remove" /\ ops[Main][2].key = ops[Main][1].key
    /\ ops[Main][2].ok
    /\ ops[Main][3].op = "remove" /\ ops[Main][3].key = ops[Main][1].key
    /\ ~ops[Main][3].ok
    /\ LiveEntries = <<>>

(* ---------------------------------------------------------------------- *)
(* C9: with no call in progress, an iteration from begin() to end() yields *)
(* exactly the entries of the keys inserted and not removed, ascending.    *)
(* ---------------------------------------------------------------------- *)
C9_IterationYieldsMap ==
    \A i \in 1 .. Len(ops[Main]) :
        LET o == ops[Main][i] IN
        (o.done /\ o.op = "iterate") => o.out = RefEntries(RefAfter(Before(Main, i)))

(* ---------------------------------------------------------------------- *)
(* C10: an iteration that runs while other threads insert and remove       *)
(* visits strictly ascending keys, ends after at most MaxKey steps, and    *)
(* when it has ended it has visited every key whose insert returned true   *)
(* before it began and that no call removes.                               *)
(* ---------------------------------------------------------------------- *)
Visited(c) ==
    IF CallOf(c).done THEN CallOf(c).out
    ELSE IF c[2] = Len(ops[c[1]]) /\ ~Idle(c[1]) THEN stack[c[1]][1].out
    ELSE <<>>
StrictlyAscending(out) ==
    \A i \in 1 .. Len(out) - 1 : out[i][1] < out[i + 1][1]
PresentThroughout(k, c) ==
    /\ \E e \in Calls : On(e, "insert", k) /\ Won(e) /\ Precedes(e, c)
    /\ NeverRemoved(k)

C10_ConcurrentIteration ==
    \A c \in Calls :
        CallOf(c).op = "iterate" =>
            /\ StrictlyAscending(Visited(c))
            /\ Len(Visited(c)) <= MaxKey
            /\ CallOf(c).done =>
                   \A k \in Keys :
                       PresentThroughout(k, c) =>
                           \E i \in 1 .. Len(Visited(c)) : Visited(c)[i][1] = k

(* ---------------------------------------------------------------------- *)
(* C11: at every level the chain of right pointers from the head sentinel  *)
(* reaches the tail sentinel of that level, and the right neighbour of     *)
(* every node, linked or not, has a strictly larger key than the node.     *)
(* ---------------------------------------------------------------------- *)
RECURSIVE ReachesTail(_, _, _)
ReachesTail(n, stop, fuel) ==
    IF n = stop THEN TRUE
    ELSE IF n = Null \/ fuel = 0 THEN FALSE
    ELSE ReachesTail(right(mem[n].successor), stop, fuel - 1)

RightNeighbourLarger ==
    \A n \in DOMAIN mem :
        LET r == right(mem[n].successor) IN
        r # Null => mem[n].key < mem[r].key

C11_SortedAtAllLevels ==
    /\ \A l \in 1 .. NumLevels :
          ReachesTail(HeadOf(l), TailOf(l), Cardinality(DOMAIN mem))
    /\ RightNeighbourLarger

(* ---------------------------------------------------------------------- *)
(* C12: with finitely many calls and weakly fair scheduling of the         *)
(* threads, every call of insert, find and remove that was invoked         *)
(* eventually returns.                                                     *)
(* ---------------------------------------------------------------------- *)
\* the scheduler lets every thread that can take a step take one
FairScheduling ==
    /\ WF_vars(Spawn)
    /\ WF_vars(Join)
    /\ \A t \in Threads : WF_vars(ThreadStep(t))

LivePrograms == RemoveRace \cup InsertRace \cup DisjointKeys
InitLive == InitCommon /\ scen \in LivePrograms
SpecFair == InitLive /\ [][Next]_vars /\ FairScheduling

C12_EveryCallReturns == \A t \in Threads : (~Idle(t)) ~> Idle(t)

\* the same, for the runs that do not abort
ReturnsUnlessAborted == \A t \in Threads : (~Idle(t)) ~> (Idle(t) \/ crashed)

(* ---------------------------------------------------------------------- *)
(* C13: every node above level 1, sentinel or user node, has a non-null    *)
(* down pointer to a node with the same key and the same towerRoot, and    *)
(* every level-1 user node is its own towerRoot and has a null down.       *)
(* ---------------------------------------------------------------------- *)
\* the level a node was allocated for (constructor 65-87, insert 109, 149)
LevelOf(n) ==
    IF n \in Sentinels
      THEN IF n <= NumLevels THEN n ELSE n - NumLevels
      ELSE ((n - (2 * NumLevels) - 1) % MAX_LEVEL) + 1

C13_TowerPointers ==
    \A n \in DOMAIN mem :
        IF LevelOf(n) > 1
          THEN /\ mem[n].down # Null
               /\ mem[n].down \in DOMAIN mem
               /\ mem[mem[n].down].key = mem[n].key
               /\ mem[mem[n].down].towerRoot = mem[n].towerRoot
          ELSE n \notin Sentinels => mem[n].towerRoot = n /\ mem[n].down = Null

\* a tower of full height has been built and its top node is linked
C13_Witness ==
    \E n \in (DOMAIN mem) \ Sentinels :
        /\ LevelOf(n) = MAX_LEVEL
        /\ MAX_LEVEL > 1
        /\ Linked(n)
        /\ mem[n].down \notin Sentinels

(* ---------------------------------------------------------------------- *)
(* C14: when the remove(k) that returned an element and the insert that    *)
(* built the tower of that element have both returned and no call is in    *)
(* progress, no node of the tower is in the list of any level.             *)
(* ---------------------------------------------------------------------- *)
\* node n is in the list of level l: the right pointers lead to it from the head
InList(n, l) == \E i \in 1 .. Len(LevelList(l)) : LevelList(l)[i] = n

\* remove call r returned the element that insert call c stored
Removed(r, c) ==
    /\ CallOf(c).op = "insert" /\ Won(c)
    /\ CallOf(r).op = "remove" /\ Won(r)
    /\ CallOf(r).key = CallOf(c).key
    /\ CallOf(r).val = CallOf(c).element

C14_RemovedTowerIsUnlinked ==
    Quiescent =>
        \A c \in Calls, r \in Calls :
            Removed(r, c) =>
                \A n \in TowerOf(c) \cap DOMAIN mem, l \in 1 .. NumLevels : ~InList(n, l)

(* ---------------------------------------------------------------------- *)
(* C15: a newly constructed map has exactly MAX_LEVEL levels; each level   *)
(* is a head sentinel with key MIN_KEY whose successor is the level's tail *)
(* sentinel with key MAX_KEY, mark and flag clear; the heads are chained   *)
(* vertically and so are the tails.                                        *)
(* ---------------------------------------------------------------------- *)
\* the nodes reached from n by following up
RECURSIVE Ladder(_, _)
Ladder(n, fuel) ==
    IF n = Null \/ fuel = 0 THEN <<>>
    ELSE <<n>> \o Ladder(mem[n].up, fuel - 1)

HeadLadder == Ladder(head, Cardinality(DOMAIN mem))
TailLadder == Ladder(tail, Cardinality(DOMAIN mem))

\* no call has been made on the map yet
NewlyConstructed == \A t \in Threads : ops[t] = <<>>

\* the sentinels form `levels` levels
SentinelLevels(levels) ==
    /\ Len(HeadLadder) = levels
    /\ Len(TailLadder) = levels
    /\ \A l \in 1 .. levels :
          /\ l <= Len(HeadLadder) /\ l <= Len(TailLadder)
          /\ mem[HeadLadder[l]].key = MIN_KEY
          /\ mem[TailLadder[l]].key = MAX_KEY
          /\ mem[HeadLadder[l]].successor = Successor(TailLadder[l], FALSE, FALSE)
          /\ l > 1 => /\ mem[HeadLadder[l]].down = HeadLadder[l - 1]
                      /\ mem[TailLadder[l]].down = TailLadder[l - 1]

C15_NewMapHasMaxLevelLevels == NewlyConstructed => SentinelLevels(MAX_LEVEL)

\* what the constructor builds: one level more
ConstructedLevels == NewlyConstructed => SentinelLevels(MAX_LEVEL + 1)

(* ---------------------------------------------------------------------- *)
(* C16: every call helpFlagged(pred, victim) is made with a victim such    *)
(* that pred.successor held {victim, 0, 1} at some earlier moment; hence a *)
(* node is marked only after its predecessor was flagged toward it.        *)
(* ---------------------------------------------------------------------- *)
\* the helpFlagged calls that are in progress
HelpFlaggedFrames(t) ==
    {i \in 1 .. Len(stack[t]) : stack[t][i].pc \in {"hf403", "hf404", "hf409"}}

HelpFlaggedCalls ==
    UNION {{<<stack[t][i].prev, stack[t][i].del>> : i \in HelpFlaggedFrames(t)} :
             t \in Threads}

MarkedNodes == {n \in DOMAIN mem : marked(mem[n].successor)}

C16_HelpFlaggedVictimWasFlagged ==
    /\ HelpFlaggedCalls \subseteq everFlagged
    /\ \A n \in MarkedNodes : \E p \in DOMAIN mem : <<p, n>> \in everFlagged

(* ---------------------------------------------------------------------- *)
(* C17: tryFlagNode(pred, target) reports did_flag = true only to the      *)
(* thread whose own CAS changed pred.successor from {target, 0, 0} to      *)
(* {target, 0, 1}.                                                         *)
(* ---------------------------------------------------------------------- *)
\* this step is thread t returning from tryFlagNode with (prev, true, true)
ReportsDidFlag(t) ==
    /\ ~Idle(t)
    /\ Top(t).pc \in {"tf282", "tf289", "tf290", "tf303"}
    /\ Len(stack'[t]) = Len(stack[t]) - 1
    /\ ret'[t] = Flagging(Top(t).prev, TRUE, TRUE)

\* this step installs the flag on pred toward target
InstallsFlag(pred, target) ==
    /\ mem[pred].successor = Successor(target, FALSE, FALSE)
    /\ mem'[pred].successor = Successor(target, FALSE, TRUE)

C17_DidFlagOnlyToInstaller ==
    [][\A t \in Threads :
          ReportsDidFlag(t) => InstallsFlag(Top(t).prev, Top(t).target)]_vars

(* ---------------------------------------------------------------------- *)
(* C18: deleteNode(pred, target) returns null exactly when its tryFlagNode *)
(* call reports that the target is no longer in the list, and returns the  *)
(* target whenever tryFlagNode reports it in the list, whether or not this *)
(* thread did the flagging.                                                *)
(* ---------------------------------------------------------------------- *)
\* this step is thread t returning from deleteNode
DeleteNodeReturns(t) ==
    /\ ~Idle(t)
    /\ Top(t).pc = "dn380"
    /\ Len(stack'[t]) = Len(stack[t]) - 1

C18_NullIffNotInList ==
    [][\A t \in Threads :
          DeleteNodeReturns(t) =>
              /\ (ret'[t].second = Null) <=> (Top(t).status = FALSE)
              /\ Top(t).status => ret'[t].second = Top(t).del]_vars

\* as the code has it: null exactly when this thread did not do the flagging
C18_NullIffDidNotFlag ==
    [][\A t \in Threads :
          DeleteNodeReturns(t) =>
              /\ (ret'[t].second = Null) <=> (Top(t).result = FALSE)
              /\ Top(t).result => ret'[t].second = Top(t).del
              /\ Top(t).result => Top(t).status]_vars

\* tryFlagNode reported the target in the list, flagged by another thread
C18_Witness ==
    \E t \in Threads :
        /\ ~Idle(t)
        /\ Top(t).pc = "dn380"
        /\ Top(t).status /\ ~Top(t).result

(* ---------------------------------------------------------------------- *)
(* C19: insert returns true if and only if its own root node was spliced   *)
(* into the level-1 list, also when the key is removed concurrently before *)
(* the tower is complete; when insert returns false, no node created by    *)
(* the call was ever linked at any level.                                  *)
(* ---------------------------------------------------------------------- *)
C19_TrueIffRootSpliced ==
    \A c \in Calls :
        (CallOf(c).op = "insert" /\ CallOf(c).done) =>
            /\ CallOf(c).ok <=> EverLinked(RootOf(c))
            /\ ~CallOf(c).ok => \A n \in TowerOf(c) : ~EverLinked(n)

\* an insert whose key was removed while it ran returned true without
\* building the upper node its coin flips asked for
C19_Witness ==
    \E c \in Calls, r \in Calls :
        /\ Removed(r, c)
        /\ Concurrent(c, r)
        /\ scen.coins = {MAX_LEVEL}
        /\ NodeId(c[1], c[2], MAX_LEVEL) \notin DOMAIN mem

\* an insert that lost against a concurrent insert of the same key
C19_LostWitness ==
    \E c \in Calls, d \in Calls :
        /\ CallOf(c).op = "insert" /\ Lost(c)
        /\ CallOf(d).op = "insert" /\ Concurrent(c, d)
        /\ RootOf(c) \in DOMAIN mem

(* ---------------------------------------------------------------------- *)
(* C20: in searchToLevelAndCacheResults the level index under which a      *)
(* (pred, succ) pair is stored is always between 1 and MAX_LEVEL, inside   *)
(* the cache of MAX_LEVEL + 1 slots, also when a tower of height MAX_LEVEL *)
(* is linked.                                                              *)
(* ---------------------------------------------------------------------- *)
\* the level indices of the cache stores that are about to happen
CacheStoreIndices ==
    UNION {{stack[t][i].currV :
              i \in {j \in 1 .. Len(stack[t]) : stack[t][j].pc = "c476"}} :
             t \in Threads}

C20_CacheIndexInBounds == CacheStoreIndices \subseteq 1 .. MAX_LEVEL

(* ---------------------------------------------------------------------- *)
(* C21: no node is unlinked while unmarked: every CAS that removes a node  *)
(* from its predecessor's successor replaces {victim, 0, 1} by             *)
(* {victim's right neighbour, 0, 0} while the victim is marked, and the    *)
(* victim was marked after its predecessor had been flagged toward it.     *)
(* ---------------------------------------------------------------------- *)
\* this step takes victim out of the successor word of a node of the list
\* (it is not a splice of a new node between the two)
Unlinks(pred, victim) ==
    /\ pred \in Sentinels \/ EverLinked(pred)
    /\ right(mem[pred].successor) = victim
    /\ right(mem'[pred].successor) # victim
    /\ LET new == right(mem'[pred].successor) IN
       ~(new \in DOMAIN mem' /\ right(mem'[new].successor) = victim)

C21_FlagMarkUnlink ==
    [][\A pred \in DOMAIN mem, victim \in DOMAIN mem :
          Unlinks(pred, victim) =>
              /\ mem[pred].successor = Successor(victim, FALSE, TRUE)
              /\ mem'[pred].successor =
                     Successor(right(mem[victim].successor), FALSE, FALSE)
              /\ marked(mem[victim].successor)
              /\ victim \notin markedUnflagged]_vars

\* the same without the order of flag and mark
UnlinkOnlyMarked ==
    [][\A pred \in DOMAIN mem, victim \in DOMAIN mem :
          Unlinks(pred, victim) =>
              /\ mem[pred].successor = Successor(victim, FALSE, TRUE)
              /\ mem'[pred].successor =
                     Successor(right(mem[victim].successor), FALSE, FALSE)
              /\ marked(mem[victim].successor)]_vars

(* ---------------------------------------------------------------------- *)
(* C22: while pred.successor is {victim, 0, 1} no node is spliced in after *)
(* pred and pred is not marked: the only next value of the word is         *)
(* {victim's right neighbour, 0, 0}; and a node is the flagged target of   *)
(* at most one predecessor at a time.                                      *)
(* ---------------------------------------------------------------------- *)
FlaggedNodes == {n \in DOMAIN mem : flagged(mem[n].successor)}

\* the predecessors currently flagged toward n
FlaggedToward(n) == {p \in FlaggedNodes : right(mem[p].successor) = n}

FlaggedWordOnlyUnlinks ==
    \A pred \in FlaggedNodes :
        LET victim == right(mem[pred].successor) IN
        \/ mem'[pred].successor = mem[pred].successor
        \/ /\ victim \in DOMAIN mem
           /\ mem'[pred].successor =
                  Successor(right(mem[victim].successor), FALSE, FALSE)

C22_FlaggedPredecessorIsFrozen ==
    /\ [](\A n \in DOMAIN mem : Cardinality(FlaggedToward(n)) <= 1)
    /\ [][FlaggedWordOnlyUnlinks]_vars

\* an insert is about to try its CAS on a predecessor that is flagged
C22_Witness ==
    \E t \in Threads :
        /\ ~Idle(t)
        /\ Top(t).pc = "in335"
        /\ Top(t).prev \in FlaggedNodes

(* ---------------------------------------------------------------------- *)
(* C23: once a node's successor is marked it never changes again: the      *)
(* mark stays, the right pointer is frozen and no flag is set on it.       *)
(* ---------------------------------------------------------------------- *)
C23_MarkedWordIsFrozen ==
    [][\A n \in MarkedNodes : mem'[n].successor = mem[n].successor]_vars

\* a thread is about to try a CAS on the successor of a marked node
C23_Witness ==
    \E t \in Threads :
        /\ ~Idle(t)
        /\ Top(t).pc \in {"in335", "tf289"}
        /\ Top(t).prev \in MarkedNodes

(* ---------------------------------------------------------------------- *)
(* C24: every node that was spliced into a level and whose successor is    *)
(* unmarked is reachable from the head sentinel of that level by right     *)
(* pointers: no node is spliced in behind a marked predecessor and no      *)
(* unlink cuts off an unmarked node.                                       *)
(* ---------------------------------------------------------------------- *)
ReachableFromHead(n) ==
    ReachesTail(HeadOf(LevelOf(n)), n, Cardinality(DOMAIN mem))

\* the nodes that were spliced in (a successor word points to them) and are
\* not marked
SplicedUnmarked == {n \in DOMAIN mem : Linked(n) /\ ~marked(mem[n].successor)}

C24_UnmarkedNodesReachable == \A n \in SplicedUnmarked : ReachableFromHead(n)

\* a node was unlinked next to an unmarked user node: the unlinked node
\* still points to it
C24_Witness ==
    \E m \in MarkedNodes, n \in SplicedUnmarked \ Sentinels :
        /\ right(mem[m].successor) = n
        /\ ~ReachableFromHead(m)

(* ---------------------------------------------------------------------- *)
(* C25: in every reachable state no node's successor word has both the     *)
(* mark bit and the flag bit set.                                          *)
(* ---------------------------------------------------------------------- *)
C25_NeverMarkedAndFlagged == MarkedNodes \cap FlaggedNodes = {}

\* tryMark is about to try its CAS on a node that is flagged
C25_Witness ==
    \E t \in Threads :
        /\ ~Idle(t)
        /\ Top(t).pc = "tm418"
        /\ Top(t).del \in FlaggedNodes

(* ---------------------------------------------------------------------- *)
(* C26: whenever a node's successor is marked, its backLink is non-null    *)
(* and refers to a node of the same level with a strictly smaller key      *)
(* whose successor pointed to the node when it was flagged; so a backLink  *)
(* walk from a marked node reaches an unmarked node without meeting null.  *)
(* ---------------------------------------------------------------------- *)
\* while (prevNode->successor.load().marked()) prevNode = prevNode->backLink
RECURSIVE BackLinkWalkEnds(_, _)
BackLinkWalkEnds(n, fuel) ==
    IF n = Null \/ fuel = 0 THEN FALSE
    ELSE IF ~marked(mem[n].successor) THEN TRUE
    ELSE BackLinkWalkEnds(mem[n].backLink, fuel - 1)

BackLinkOfMarkedIsPredecessor ==
    \A n \in MarkedNodes :
        LET b == mem[n].backLink IN
        /\ b # Null
        /\ b \in DOMAIN mem
        /\ LevelOf(b) = LevelOf(n)
        /\ mem[b].key < mem[n].key
        /\ <<b, n>> \in everFlagged

BackLinkWalksEnd ==
    \A n \in MarkedNodes : BackLinkWalkEnds(n, Cardinality(DOMAIN mem))

C26_BackLinkOfMarked == BackLinkOfMarkedIsPredecessor /\ BackLinkWalksEnd

(* ---------------------------------------------------------------------- *)
(* C27: each node's backLink is written at most once during the node's     *)
(* lifetime, at the time its predecessor is flagged toward it: a backLink  *)
(* that has been set is never replaced by another value.                   *)
(* ---------------------------------------------------------------------- *)
C27_BackLinkNeverOverwritten ==
    [][\A n \in DOMAIN mem :
          mem[n].backLink # Null => mem'[n].backLink = mem[n].backLink]_vars

\* this step is thread t executing delNode->backLink.store(prevNode)
StoresBackLink(t) ==
    /\ ~Idle(t)
    /\ Top(t).pc = "hf403"
    /\ ~Idle(t)'
    /\ Top(t)'.pc = "hf404"

\* counting stores instead of values: no helper stores a backLink that is set
EveryBackLinkStoreIsFirst ==
    [][\A t \in Threads :
          StoresBackLink(t) => mem[Top(t).del].backLink = Null]_vars

(* ---------------------------------------------------------------------- *)
(* C28: helping is idempotent: when several threads help the deletion      *)
(* pending at a predecessor flagged toward a victim, the victim is marked  *)
(* and unlinked once, the predecessor's word ends as {victim's right       *)
(* neighbour, 0, 0}, and no node other than the victim is marked or        *)
(* unlinked by the helping.                                                *)
(* ---------------------------------------------------------------------- *)
\* the nodes still in the list (reachable from their level's head) that
\* point to n
PointingTo(n) ==
    {p \in DOMAIN mem :
        /\ p \in Sentinels \/ EverLinked(p)
        /\ ReachableFromHead(p)
        /\ right(mem[p].successor) = n}

\* an unlink is the one step that completes the deletion pending at pred:
\* nothing else points to the victim, so it cannot be unlinked again
UnlinkCompletesDeletion ==
    \A pred \in DOMAIN mem, victim \in DOMAIN mem :
        Unlinks(pred, victim) =>
            /\ mem[pred].successor = Successor(victim, FALSE, TRUE)
            /\ mem'[pred].successor =
                   Successor(right(mem[victim].successor), FALSE, FALSE)
            /\ marked(mem[victim].successor)
            /\ PointingTo(victim) = {pred}

C28_HelpingIsIdempotent ==
    /\ [](markedUnflagged = {})
    /\ [][UnlinkCompletesDeletion]_vars

\* the unlink half of the statement on its own
UnlinkedOnce == [][UnlinkCompletesDeletion]_vars

(* ---------------------------------------------------------------------- *)
(* C29: at the moment a remove(k) call returns the element, the removed    *)
(* root node is marked and no longer reachable from the level-1 head.      *)
(* ---------------------------------------------------------------------- *)
\* the root nodes of the remove calls that are at their return statement
\* (line 197, after searchToLevel(key, 2) has returned)
ReturningRemoves ==
    {Top(t).del : t \in {u \in Threads : ~Idle(u) /\ Top(u).pc = "rem197"}}

C29_RemovedRootIsUnlinked ==
    \A n \in ReturningRemoves :
        marked(mem[n].successor) /\ ~ReachableFromHead(n)

(* ---------------------------------------------------------------------- *)
(* C30: no head or tail sentinel ever has its successor marked, and no     *)
(* sentinel is ever the victim of a flag or of a helpFlagged call.         *)
(* ---------------------------------------------------------------------- *)
\* the nodes some predecessor has been flagged toward
FlagVictims == {pv[2] : pv \in everFlagged}

\* the delNode arguments of the helpFlagged calls in progress
HelpFlaggedVictims == {pv[2] : pv \in HelpFlaggedCalls}

C30_SentinelsNeverDeleted ==
    (MarkedNodes \cup FlagVictims \cup HelpFlaggedVictims) \cap Sentinels = {}

(* ---------------------------------------------------------------------- *)
(* C31: searchRight(k, curr) called with curr.key <= k returns (pred,      *)
(* succ) on curr's level with pred.key <= k < succ.key, succ having been   *)
(* read from pred.successor during the call; it never steps onto a node    *)
(* whose tower root it observed as marked, and it moves past such a node   *)
(* only when the node is marked and unlinked.                              *)
(* ---------------------------------------------------------------------- *)
\* a thread looks up key 1 while the other removes it, inserts key 2 and
\* removes key 3; the main thread iterates afterwards
SearchRace ==
    {Program(<<Ins(1), Ins(3)>>, Two(<<Fnd(1)>>, <<Rem(1), Ins(2), Rem(3)>>),
             <<Itr>>, {0})}

InitSearch == InitCommon /\ scen \in SearchRace
SpecSearch == InitSearch /\ [][Next]_vars

SearchRightPCs == {"sr248", "sr255", "sr257", "sr263"}

InSearchRight(t) == (~Idle(t)) /\ Top(t).pc \in SearchRightPCs

\* the currNode argument of the searchRight call t is in: every caller keeps
\* it in the frame it left behind
SearchStart(t) ==
    LET caller == stack[t][Len(stack[t]) - 1] IN
    IF "curr" \in DOMAIN caller THEN caller.curr ELSE caller.prev

\* line 271: this step is the return of t's searchRight call
SearchRightReturns(t) ==
    /\ InSearchRight(t)
    /\ Len(stack'[t]) = Len(stack[t]) - 1

\* lines 266-267: this step moves currNode onto nextNode
SearchRightAdvances(t) ==
    /\ InSearchRight(t)
    /\ Len(stack'[t]) = Len(stack[t])
    /\ Top(t).pc = "sr255"
    /\ stack'[t][Len(stack[t])].curr = Top(t).next

\* line 263: this step reloads nextNode after the deletion of the node
\* observed as superfluous was helped, and finds another node
SearchRightMovesPast(t) ==
    /\ InSearchRight(t)
    /\ Len(stack'[t]) = Len(stack[t])
    /\ Top(t).pc = "sr263"
    /\ stack'[t][Len(stack[t])].next # Top(t).next

SearchRightPostcondition(t) ==
    LET f == Top(t)
        start == SearchStart(t)
        pred == ret'[t].first
        succ == ret'[t].second
    IN  (start # Null /\ mem[start].key <= f.k) =>
           /\ LevelOf(pred) = LevelOf(start)
           /\ LevelOf(succ) = LevelOf(start)
           /\ mem[pred].key <= f.k
           /\ f.k < mem[succ].key
           /\ IF f.pc = "sr248" THEN succ = right(mem[pred].successor)
                                 ELSE f.readFrom = pred

SearchRightStep(t) ==
    /\ SearchRightReturns(t) => SearchRightPostcondition(t)
    /\ SearchRightAdvances(t) =>
          ~marked(mem[mem[Top(t).next].towerRoot].successor)
    /\ SearchRightMovesPast(t) =>
          /\ marked(mem[Top(t).next].successor)
          /\ ~InList(Top(t).next, LevelOf(Top(t).next))

C31_SearchRightPostcondition == [][\A t \in Threads : SearchRightStep(t)]_vars

(* ---------------------------------------------------------------------- *)
(* C32: for 1 <= v <= MAX_LEVEL findStart(v) returns a head sentinel and   *)
(* its level L, with L >= v and the level above L observed empty; it       *)
(* climbs the head ladder one level per round, at most to level MAX_LEVEL, *)
(* runs into no null pointer and never follows the up pointer of the       *)
(* topmost head sentinel.                                                  *)
(* ---------------------------------------------------------------------- *)
TopHead == HeadOf(NumLevels)

\* the findStart calls in progress, as <<currNode, currV, v>>
FindStartCalls ==
    {<<Top(t).curr, Top(t).currV, Top(t).v>> :
        t \in {u \in Threads : ~Idle(u) /\ Top(u).pc = "fs233"}}

\* line 233 dereferences currNode, currNode->up and the right neighbour of
\* currNode->up
FindStartFaults(currNode) ==
    \/ currNode = Null
    \/ mem[currNode].up = Null
    \/ right(mem[mem[currNode].up].successor) = Null

\* line 238: this step is the return of t's findStart call
FindStartReturns(t) ==
    /\ ~Idle(t)
    /\ Top(t).pc = "fs233"
    /\ Len(stack'[t]) = Len(stack[t]) - 1

FindStartPostcondition(t) ==
    LET v == Top(t).v
        L == ret'[t].level
        above == mem[ret'[t].first].up
    IN  /\ L \in v .. NumLevels
        /\ ret'[t].first = HeadOf(L)
        /\ mem[right(mem[above].successor)].key = MAX_KEY

FindStartNeverLeavesLadder ==
    \A c \in FindStartCalls :
        /\ c[3] \in 1 .. MAX_LEVEL
        /\ c[2] \in 1 .. MAX_LEVEL
        /\ c[1] = HeadOf(c[2])
        /\ c[1] # TopHead
        /\ ~FindStartFaults(c[1])

Inserting == {t \in Threads : (~Idle(t)) /\ "towerHeight" \in DOMAIN stack[t][1]}

\* the nodes allocated so far by the insert call t is in
TowerBuilt(t) ==
    {n \in DOMAIN mem : \E l \in 1 .. NumLevels : n = NodeId(t, Len(ops[t]), l)}

HeightInBounds(t) ==
    LET f == stack[t][1] IN
    /\ f.towerHeight \in 1 .. MAX_LEVEL
    /\ f.currV \in 1 .. f.towerHeight
    /\ f.new # Null => f.new = NodeId(t, Len(ops[t]), f.currV)
    /\ TowerBuilt(t) \subseteq {NodeId(t, Len(ops[t]), l) : l \in 1 .. f.currV}

\* every user node in the list of a level was built for that level, and the
\* level above MAX_LEVEL holds no user node
LinkedOnOwnLevel ==
    \A l \in 1 .. NumLevels :
        \A i \in 1 .. Len(LevelList(l)) :
            /\ l <= MAX_LEVEL
            /\ LevelOf(LevelList(l)[i]) = l

C34_TowerHeightInBounds ==
    /\ \A t \in Inserting : HeightInBounds(t)
    /\ LinkedOnOwnLevel

\* the coin came up heads MAX_LEVEL times and the tower is complete
C34_Witness ==
    \E t \in Inserting :
        LET f == stack[t][1] IN
        /\ f.towerHeight = MAX_LEVEL
        /\ f.currV = MAX_LEVEL
        /\ InList(f.new, MAX_LEVEL)

(* ---------------------------------------------------------------------- *)
(* C35: without concurrent operations, the (pred, succ) pair insert takes  *)
(* from its cache for level v is the pair searchToLevel(k, v) would return *)
(* at the moment the pair is used, and the node insert links with it       *)
(* stands where a fresh search would put it.                               *)
(* ---------------------------------------------------------------------- *)
\* searchRight(k, currNode) as a function of the heap: a node it would help
\* to unlink (lines 255-264) is passed over; helped says that the inner loop
\* is running, where line 255 is tested whatever the key of nextNode is
RECURSIVE SearchRightResult(_, _, _, _, _)
SearchRightResult(k, currNode, nextNode, helped, fuel) ==
    IF nextNode = Null \/ fuel = 0 THEN <<currNode, nextNode>>
    ELSE IF (mem[nextNode].key <= k \/ helped)
            /\ marked(mem[mem[nextNode].towerRoot].successor)
      THEN SearchRightResult(k, currNode, right(mem[nextNode].successor), TRUE,
                             fuel - 1)
    ELSE IF mem[nextNode].key <= k
      THEN SearchRightResult(k, nextNode, right(mem[nextNode].successor), FALSE,
                             fuel - 1)
    ELSE <<currNode, nextNode>>

\* findStart(v) as a function of the heap (lines 229-238)
RECURSIVE FindStartResult(_, _, _)
FindStartResult(currNode, currV, v) ==
    IF currV >= NumLevels THEN <<currNode, currV>>
    ELSE IF FindStartContinues(
                mem[right(mem[mem[currNode].up].successor)].key, currV, v)
      THEN FindStartResult(mem[currNode].up, currV + 1, v)
    ELSE <<currNode, currV>>

\* searchToLevel(k, v) as a function of the heap (lines 206-224)
RECURSIVE DescendResult(_, _, _, _)
DescendResult(k, currNode, currV, v) ==
    LET found == SearchRightResult(k, currNode, right(mem[currNode].successor),
                                   FALSE, Cardinality(DOMAIN mem))
    IN  IF currV > v
          THEN DescendResult(k, mem[found[1]].down, currV - 1, v)
          ELSE found

SearchToLevelResult(k, v) ==
    LET start == FindStartResult(head, 1, v) IN
    DescendResult(k, start[1], start[2], v)

\* the insertNode calls that were handed a pair of the cache (lines 100, 154):
\* <<key, level, prevNode, nextNode>> at the entry of insertNode
CachedPairsInUse ==
    {<<stack[t][1].key, stack[t][1].currV, Top(t).prev, Top(t).next>> :
        t \in {u \in Inserting :
                 /\ Len(stack[u]) = 2
                 /\ Top(u).pc = "in321"
                 /\ stack[u][1].cache[stack[u][1].currV][1] # Null}}

\* insertNode has just linked newNode (line 338): <<key, level, newNode>>
JustLinked ==
    {<<stack[t][1].key, stack[t][1].currV, stack[t][1].new>> :
        t \in {u \in Inserting :
                 /\ Len(stack[u]) = 1
                 /\ stack[u][1].pc = "ins123"
                 /\ ret[u].second = stack[u][1].new}}

C35_CachedPairIsFresh ==
    /\ \A c \in CachedPairsInUse : <<c[3], c[4]>> = SearchToLevelResult(c[1], c[2])
    /\ \A c \in JustLinked : SearchToLevelResult(c[1], c[2])[1] = c[3]

\* a cached pair of level 2 is used next to a tower that is already there
C35_Witness ==
    \E c \in CachedPairsInUse : c[2] = MAX_LEVEL /\ c[3] \notin Sentinels

(* ---------------------------------------------------------------------- *)
(* C36: find never changes which keys are present or any stored element:   *)
(* the only writes of a find call are backLink stores and the flag, mark   *)
(* and unlink CASes that complete the deletion of nodes whose tower root   *)
(* is already marked; every unmarked tower is left linked as it was.       *)
(* ---------------------------------------------------------------------- *)
\* this step is taken by thread t inside a find call
FindActs(t) ==
    /\ ~Idle(t)
    /\ stack[t][1].pc = "find169"
    /\ stack'[t] # stack[t]

TowerIsMarked(n) == n # Null /\ marked(mem[mem[n].towerRoot].successor)

\* the step flags n toward a node of a marked tower (tryFlagNode 292-294)
FlagsForDeletion(n) ==
    LET old == mem[n].successor IN
    /\ ~marked(old) /\ ~flagged(old)
    /\ mem'[n].successor = Successor(right(old), FALSE, TRUE)
    /\ TowerIsMarked(right(old))

\* the step marks a node of a marked tower (tryMark 418)
MarksForDeletion(n) ==
    LET old == mem[n].successor IN
    /\ ~marked(old) /\ ~flagged(old)
    /\ mem'[n].successor = Successor(right(old), TRUE, FALSE)
    /\ TowerIsMarked(n)

\* the step unlinks a marked node of a marked tower (helpMarked 394)
UnlinksForDeletion(n) ==
    LET old == mem[n].successor
        victim == right(old)
    IN
    /\ flagged(old)
    /\ victim # Null
    /\ marked(mem[victim].successor)
    /\ TowerIsMarked(victim)
    /\ mem'[n].successor = Successor(right(mem[victim].successor), FALSE, FALSE)

FindWritesOnlyToDelete ==
    /\ DOMAIN mem' = DOMAIN mem
    /\ \A n \in DOMAIN mem :
         /\ mem'[n].key = mem[n].key
         /\ mem'[n].element = mem[n].element
         /\ mem'[n].down = mem[n].down
         /\ mem'[n].up = mem[n].up
         /\ mem'[n].towerRoot = mem[n].towerRoot
         /\ mem'[n].backLink # mem[n].backLink => TowerIsMarked(n)
         /\ mem'[n].successor # mem[n].successor =>
               \/ FlagsForDeletion(n)
               \/ MarksForDeletion(n)
               \/ UnlinksForDeletion(n)

FindKeepsEntries ==
    /\ LiveEntries' = LiveEntries
    /\ \A n \in DOMAIN mem :
         (~TowerIsMarked(n) /\ InList(n, LevelOf(n))) => InList(n, LevelOf(n))'

C36_FindOnlyHelpsDeletions ==
    [][\A t \in Threads : FindActs(t) => FindWritesOnlyToDelete /\ FindKeepsEntries]_vars

\* a find call is about to unlink a node another thread's remove has marked
C36_Witness ==
    \E t \in Threads :
        /\ ~Idle(t)
        /\ stack[t][1].pc = "find169"
        /\ Top(t).pc = "hm394"
        /\ mem[Top(t).prev].successor = Successor(Top(t).del, FALSE, TRUE)
        /\ marked(mem[Top(t).del].successor)

(* ---------------------------------------------------------------------- *)
(* C37: when tryMark(victim) returns, victim.successor is marked; the mark *)
(* is installed only by a CAS from an unmarked, unflagged word {r, 0, 0}   *)
(* to {r, 1, 0}, which keeps the right pointer; a victim found flagged is  *)
(* helped (its own pending deletion completed) before the mark is retried. *)
(* ---------------------------------------------------------------------- *)
InTryMark(t) == (~Idle(t)) /\ Top(t).pc \in {"tm417", "tm418", "tm419", "tm424"}

\* line 425: this step is the return of t's tryMark call
TryMarkReturns(t) ==
    /\ InTryMark(t)
    /\ Len(stack'[t]) = Len(stack[t]) - 1

\* lines 420-421: t takes this step from the test of the word CAS() returned
TryMarkTestsResult(t) ==
    /\ InTryMark(t)
    /\ Top(t).pc = "tm419"
    /\ stack'[t] # stack[t]

\* the helpFlagged call tryMark made at line 421 returns with this step (the
\* CAS of helpMarked is its last statement), and the loop test of line 424
\* follows
HelpReturnsToTryMark(t) ==
    /\ Len(stack[t]) >= 2
    /\ Top(t).pc = "hm394"
    /\ stack[t][Len(stack[t]) - 1].pc = "tm424"
    /\ Len(stack'[t]) = Len(stack[t]) - 1

\* the step sets the mark bit of n
InstallsMark(n) == marked(mem'[n].successor) /\ ~marked(mem[n].successor)

MarkKeepsRight(n) ==
    LET old == mem[n].successor IN
    /\ ~flagged(old)
    /\ mem'[n].successor = Successor(right(old), TRUE, FALSE)
    /\ right(mem'[n].successor) = right(old)

\* the thread that takes the step is at the CAS of tryMark(n) (line 418)
MarkedByTryMark(n) ==
    \E t \in Threads :
        /\ ~Idle(t)
        /\ Top(t).pc = "tm418"
        /\ Top(t).del = n
        /\ stack'[t] # stack[t]

TryMarkStep(t) ==
    /\ TryMarkReturns(t) => marked(mem'[Top(t).del].successor)
    /\ TryMarkTestsResult(t) =>
          LET result == mem[Top(t).del].successor IN
          flagged(result) =>
             /\ Len(stack'[t]) = Len(stack[t]) + 1
             /\ stack'[t][Len(stack'[t])] = HFFrame(Top(t).del, right(result))
    /\ HelpReturnsToTryMark(t) =>
          mem'[Top(t).prev].successor # Successor(Top(t).del, FALSE, TRUE)

C37_TryMarkPostcondition ==
    /\ [][\A t \in Threads : TryMarkStep(t)]_vars
    /\ [][\A n \in DOMAIN mem :
            InstallsMark(n) => MarkKeepsRight(n) /\ MarkedByTryMark(n)]_vars

(* ---------------------------------------------------------------------- *)
(* The tagged successor word on its own: a word is built from a pointer    *)
(* and two booleans (or default-constructed), then compared with a second  *)
(* word, as TEST(SuccessorTest, Successor) does.                           *)
(* ---------------------------------------------------------------------- *)
\* node pointers are the addresses 8 * n of the nodes 0 (nullptr) .. MaxPointer
MaxPointer == 3
Pointers == 0 .. MaxPointer

WordArgs == [right : Pointers, mark : BOOLEAN, flag : BOOLEAN]
WordInputs ==
    {[kind |-> "word", args |-> a] : a \in WordArgs} \cup {[kind |-> "default"]}

InitWord == InitCommon /\ scen \in WordInputs

\* Successor w{right, mark, flag};  or  Successor w{};
ConstructWord ==
    /\ ret[Main] = NoRet
    /\ ret' = [ret EXCEPT ![Main] =
                 [word |-> IF scen.kind = "default"
                             THEN DefaultSuccessor
                             ELSE Successor(scen.args.right, scen.args.mark,
                                            scen.args.flag)]]
    /\ UNCHANGED <<mem, stack, ops, phase, crashed, spur, scen, everFlagged,
                   markedUnflagged>>

\* w == Successor{right, mark, flag}   (operator==, lines 41-43)
CompareWord ==
    /\ DOMAIN ret[Main] = {"word"}
    /\ \E a \in WordArgs :
         LET other == Successor(a.right, a.mark, a.flag) IN
         ret' = [ret EXCEPT ![Main] =
                   [word |-> ret[Main].word, otherArgs |-> a, other |-> other,
                    equal |-> (ret[Main].word = other)]]
    /\ UNCHANGED <<mem, stack, ops, phase, crashed, spur, scen, everFlagged,
                   markedUnflagged>>

NextWord == ConstructWord \/ CompareWord
SpecWord == InitWord /\ [][NextWord]_vars

WordBuilt == "word" \in DOMAIN ret[Main]
WordCompared == "other" \in DOMAIN ret[Main]

\* what right(), marked() and flagged() report for a word
Components(w) == <<right(w), marked(w), flagged(w)>>

(* ---------------------------------------------------------------------- *)
(* C38: the word built from (p, mark, flag) reports right() = p,           *)
(* marked() = mark and flagged() = flag for every combination of the       *)
(* booleans; two words are equal iff all three components are equal; a     *)
(* default-constructed word is neither marked nor flagged.                 *)
(* ---------------------------------------------------------------------- *)
DefaultWordIsPlain ==
    (WordBuilt /\ scen.kind = "default") =>
        ~marked(ret[Main].word) /\ ~flagged(ret[Main].word)

EqualIffSameComponents ==
    WordCompared =>
        (ret[Main].equal <=> Components(ret[Main].word) = Components(ret[Main].other))

C38_WordReportsItsArguments ==
    /\ (WordBuilt /\ scen.kind = "word") =>
          Components(ret[Main].word)
              = <<scen.args.right, scen.args.mark, scen.args.flag>>
    /\ WordCompared =>
          Components(ret[Main].other)
              = <<ret[Main].otherArgs.right, ret[Main].otherArgs.mark,
                  ret[Main].otherArgs.flag>>
    /\ EqualIffSameComponents
    /\ DefaultWordIsPlain

\* the constructor gives the mark precedence (lines 22-26): the flag is
\* reported only for a word built without the mark
C38_MarkTakesPrecedence ==
    /\ (WordBuilt /\ scen.kind = "word") =>
          Components(ret[Main].word)
              = <<scen.args.right, scen.args.mark,
                  scen.args.flag /\ ~scen.args.mark>>
    /\ WordCompared =>
          Components(ret[Main].other)
              = <<ret[Main].otherArgs.right, ret[Main].otherArgs.mark,
                  ret[Main].otherArgs.flag /\ ~ret[Main].otherArgs.mark>>
    /\ EqualIffSameComponents
    /\ DefaultWordIsPlain

\* a word built with both booleans set was compared with the marked word of
\* the same pointer
C38_Witness ==
    /\ WordCompared
    /\ scen.kind = "word"
    /\ scen.args = [right |-> MaxPointer, mark |-> TRUE, flag |-> TRUE]
    /\ ret[Main].otherArgs = [right |-> MaxPointer, mark |-> TRUE, flag |-> FALSE]
    /\ ret[Main].equal

====
